---- MODULE Spec2Model ----
(***************************************************************************)
(* Model of ruptures.costs.CostRank (src/ruptures/costs/costrank.py).      *)
(*                                                                         *)
(* An instance holds cov, ranks and min_size.  fit(signal) derives ranks   *)
(* and cov from a signal; error(start, end) evaluates the segment cost.    *)
(*                                                                         *)
(* numpy arrays are records [shape, at]: shape is the tuple of axis        *)
(* lengths and at maps every index tuple (1-based in the model) to the     *)
(* element.  Floating-point numbers are exact fractions [num, den] with    *)
(* den >= 0; den = 0 stands for the IEEE specials: 0/0 is NaN and k/0 with *)
(* k # 0 is +-inf, so that 0 * inf = NaN, inf - inf = NaN and NaN          *)
(* propagates through + and *, as in IEEE arithmetic.                      *)
(***************************************************************************)
EXTENDS Integers, Sequences, FiniteSets, TLC

\* Bounds of the explored inputs.
MaxN == 3
MaxD == 2
MaxVal == 2
MaxCells == 6

\* costrank.py:84
MinSize == 2

VARIABLES
    cov,        \* self.cov
    ranks,      \* self.ranks
    min_size,   \* self.min_size
    invNaN,     \* what numpy.linalg.inv does on a matrix of NaN in this build
    fitted,     \* history: summary of the signal of the last successful fit
    last,       \* the last call: its arguments, locals and outcome
    memo        \* history: one earlier error call since the last fit

vars == <<cov, ranks, min_size, invNaN, fitted, last, memo>>

None == [isNone |-> TRUE]

----------------------------------------------------------------------------
(* Fractions standing for floats *)

Rat(n, d) == IF d < 0 THEN [num |-> -n, den |-> -d] ELSE [num |-> n, den |-> d]
NaN == [num |-> 0, den |-> 0]
IsFinite(q) == q.den # 0
RatAdd(a, b) == Rat(a.num * b.den + b.num * a.den, a.den * b.den)
RatMul(a, b) == Rat(a.num * b.num, a.den * b.den)
RatLt(a, b) == a.num * b.den < b.num * a.den     \* for finite a, b
RatLe(a, b) == a.num * b.den <= b.num * a.den    \* for finite a, b
FromInt(k) == [num |-> k, den |-> 1]

----------------------------------------------------------------------------
(* Arrays *)

RECURSIVE Indices(_)
Indices(shape) ==
    IF shape = << >> THEN { << >> }
    ELSE { <<i>> \o t : i \in 1..Head(shape), t \in Indices(Tail(shape)) }

Array(shape, f(_)) == [shape |-> shape, at |-> [t \in Indices(shape) |-> f(t)]]
Map(a, f(_)) == [shape |-> a.shape, at |-> [t \in DOMAIN a.at |-> f(a.at[t])]]
Ndim(a) == Len(a.shape)

RECURSIVE SumOver(_, _)
SumOver(S, f) ==
    IF S = {} THEN 0
    ELSE LET x == CHOOSE y \in S : TRUE IN f[x] + SumOver(S \ {x}, f)

RECURSIVE RatSumOver(_, _)
RatSumOver(S, f) ==
    IF S = {} THEN FromInt(0)
    ELSE LET x == CHOOSE y \in S : TRUE IN RatAdd(f[x], RatSumOver(S \ {x}, f))

----------------------------------------------------------------------------
(* numpy operations used by fit *)

\* signal.reshape(-1, 1) of a 1-D array: n rows of one column each.
reshape_col(a) ==
    Array(<<a.shape[1], 1>>, LAMBDA t : a.at[<<t[1]>>])

\* Sort position (0-based) of element i of a column; equal values keep
\* their original order (numpy sorts short arrays by insertion).
SortPos(col, i) ==
    Cardinality({ j \in DOMAIN col :
                    col[j] < col[i] \/ (col[j] = col[i] /\ j < i) })

\* np.argsort(a, axis=0): entry k of a column is the 0-based index of the
\* column's k-th smallest element.
np_argsort(a) ==
    Array(a.shape, LAMBDA t :
        LET col == [i \in 1..a.shape[1] |-> a.at[<<i>> \o Tail(t)]]
        IN  (CHOOSE i \in DOMAIN col : SortPos(col, i) = t[1] - 1) - 1)

\* len(a): the length of the first axis.
len(a) == a.shape[1]

\* A float -> int conversion that rounds down instead.
astype_int_floor(q) ==
    IF q.num >= 0 \/ q.num % q.den = 0 THEN q.num \div q.den
    ELSE -((-q.num) \div q.den) - 1

\* float -> int conversion: the fraction part is dropped (toward zero).
astype_int(q) ==
    IF q.num >= 0 THEN q.num \div q.den ELSE -((-q.num) \div q.den)

\* np.cov(m) of a 2-D integer array with the defaults rowvar=True, ddof=1:
\* every ROW of m is a variable and every column an observation.  With n
\* rows and d columns, c[i,j] = sum_k (m[i,k]-avg_i)(m[j,k]-avg_j) * (1/fact)
\* where fact = d - 1, and fact <= 0 is replaced by 0.0 (1/fact = inf).
\* Written over the common denominator d*d*fact.  The result is squeezed:
\* a 1 x 1 result becomes a 0-d array.
np_cov(m) ==
    LET n == m.shape[1]
        d == m.shape[2]
        S == [i \in 1..n |-> SumOver(1..d, [k \in 1..d |-> m.at[<<i, k>>]])]
        fact == IF d - 1 <= 0 THEN 0 ELSE d - 1
        c(i, j) ==
            Rat(SumOver(1..d, [k \in 1..d |->
                    (d * m.at[<<i, k>>] - S[i]) * (d * m.at[<<j, k>>] - S[j])]),
                d * d * fact)
    IN  IF n = 1 THEN Array(<< >>, LAMBDA t : c(1, 1))
        ELSE Array(<<n, n>>, LAMBDA t : c(t[1], t[2]))

----------------------------------------------------------------------------
(* CostRank.__init__ *)

init == [cov |-> None, ranks |-> None, min_size |-> MinSize]

(* CostRank.fit *)

Return(v) == [kind |-> "return", value |-> v]
Raise(e) == [kind |-> "raise", exc |-> e]

\* line 95-96
Reshape(signal) == IF Ndim(signal) = 1 THEN reshape_col(signal) ELSE signal

\* line 99: ranks = np.argsort(signal, axis=0) + 1
RawRanks(sig) == Map(np_argsort(sig), LAMBDA r : r + 1)

\* line 101: norm_ranks = ranks / len(signal)
NormRanks(rk, sig) == Map(rk, LAMBDA r : Rat(r, len(sig)))

\* line 103, before the cast: norm_ranks - (1 / 2)
Centered(norm) == Map(norm, LAMBDA q : RatAdd(q, Rat(-1, 2)))

\* line 103: (...).astype(int)
CenteredRanks(cen) == Map(cen, astype_int)

\* A fit that treats np.cov's "degrees of freedom <= 0" warning as an error.
FitRaisesOnWarning(centered_ranks) ==
    Ndim(centered_ranks) > 2 \/ centered_ranks.shape[2] - 1 <= 0

\* line 105: np.cov raises ValueError on an array of more than 2 dimensions.
FitRaises(centered_ranks) == Ndim(centered_ranks) > 2

\* A fit that stores the ranks before np.cov has had the chance to raise.
FitAssignEarly(self, raised, c, centered_ranks) ==
    IF raised THEN [self EXCEPT !.ranks = centered_ranks]
    ELSE [self EXCEPT !.cov = c, !.ranks = centered_ranks]

\* lines 107-108 are reached only when nothing raised before them.
FitAssign(self, raised, c, centered_ranks) ==
    IF raised THEN self
    ELSE [self EXCEPT !.cov = c, !.ranks = centered_ranks]

\* What the claims need to remember of an ingested signal.
Summary(signal) ==
    [ndim |-> Ndim(signal),
     distinct |-> \A s, t \in DOMAIN signal.at :
                      s # t /\ Tail(s) = Tail(t) => signal.at[s] # signal.at[t],
     constant |-> \A s, t \in DOMAIN signal.at : signal.at[s] = signal.at[t]]

\* Lines 95-105: everything fit computes from the signal alone.
FitLocals(signal) ==
    LET sig == Reshape(signal)
        rk == RawRanks(sig)
        norm == NormRanks(rk, sig)
        cen == Centered(norm)
        centered_ranks == CenteredRanks(cen)
        raised == FitRaises(centered_ranks)
    IN  [signal |-> Summary(signal),
         ranks |-> rk, norm_ranks |-> norm, centered |-> cen,
         centered_ranks |-> centered_ranks,
         raised |-> raised,
         cov |-> IF raised THEN None ELSE np_cov(centered_ranks)]

\* fit, given the locals of lines 95-105.
fit(self, l) ==
    [self |-> FitAssign(self, l.raised, l.cov, l.centered_ranks),
     outcome |-> IF l.raised THEN Raise("ValueError") ELSE Return("self"),
     inv_calls |-> 0]

----------------------------------------------------------------------------
(* numpy operations used by error *)

\* np.reshape(np.mean(a[start:end], axis=0), (-1, 1)) of an integer array:
\* the column means of rows start..end-1 (0-based), as a d x 1 array.  Axes
\* after the second have length 1 in every array of the model.
np_mean_rows(a, start, end) ==
    LET rest == [k \in 1..Ndim(a) - 2 |-> 1]
    IN  Array(<<a.shape[2], 1>>, LAMBDA t :
            Rat(SumOver(start + 1..end,
                        [i \in start + 1..end |-> a.at[<<i, t[1]>> \o rest]]),
                end - start))

transpose(a) == Array(<<a.shape[2], a.shape[1]>>, LAMBDA t : a.at[<<t[2], t[1]>>])

\* a @ b for 2-D arrays of floats; the caller checks the shapes.
matmul(a, b) ==
    Array(<<a.shape[1], b.shape[2]>>, LAMBDA t :
        RatSumOver(1..a.shape[2],
                   [k \in 1..a.shape[2] |->
                        RatMul(a.at[<<t[1], k>>], b.at[<<k, t[2]>>])]))

Minor(N, i, j, n) ==
    [t \in Indices(<<n - 1, n - 1>>) |->
        N[<<IF t[1] < i THEN t[1] ELSE t[1] + 1,
            IF t[2] < j THEN t[2] ELSE t[2] + 1>>]]

Sign(k) == IF k % 2 = 0 THEN 1 ELSE -1

RECURSIVE Det(_, _)
Det(N, n) ==
    IF n = 0 THEN 1
    ELSE SumOver(1..n, [j \in 1..n |->
            Sign(1 + j) * N[<<1, j>>] * Det(Minor(N, 1, j, n), n - 1)])

HasNaN(a) == \E t \in DOMAIN a.at : ~IsFinite(a.at[t])

\* The integer numerators of a square matrix whose entries share the
\* denominator of entry (1,1), as the entries of a covariance matrix do.
Numerators(a) == [t \in DOMAIN a.at |-> a.at[t].num]

\* numpy.linalg.inv(a).  It raises LinAlgError on an array of fewer than
\* two dimensions and on a singular matrix (a zero pivot).  A matrix that
\* holds NaN has no zero pivot: what comes back depends on the LAPACK build
\* (a matrix of NaN, or LinAlgError), which `build` fixes.
np_inv(a, build) ==
    IF Ndim(a) < 2 THEN [raised |-> TRUE, value |-> None]
    ELSE IF HasNaN(a)
    THEN [raised |-> build = "raise",
          value |-> IF build = "raise" THEN None ELSE Map(a, LAMBDA q : NaN)]
    ELSE LET n == a.shape[1]
             N == Numerators(a)
             D == a.at[<<1, 1>>].den
             det == Det(N, n)
         IN  IF det = 0 THEN [raised |-> TRUE, value |-> None]
             ELSE [raised |-> FALSE,
                   value |-> Array(a.shape, LAMBDA t :
                       Rat(D * Sign(t[1] + t[2]) * Det(Minor(N, t[2], t[1], n), n - 1),
                           det))]

(* CostRank.error *)

\* A length check that admits segments one sample too short.
TooShortOffByOne(self, start, end) == end - start < self.min_size - 1

\* line 125
TooShort(self, start, end) == end - start < self.min_size

\* lines 128-132, reached when the segment is long enough.
Cost(self, start, end, build) ==
    IF self.ranks = None
    THEN [outcome |-> Raise("TypeError"), mean |-> None, inv_calls |-> 0]
    ELSE
    LET mean == np_mean_rows(self.ranks, start, end)
        lhs == Map(transpose(mean), LAMBDA q : RatMul(FromInt(-(end - start)), q))
        ic == np_inv(self.cov, build)
    IN  IF ic.raised
        THEN [outcome |-> Raise("LinAlgError"), mean |-> mean, inv_calls |-> 1]
        ELSE IF lhs.shape[2] # ic.value.shape[1]
        THEN [outcome |-> Raise("ValueError"), mean |-> mean, inv_calls |-> 1]
        ELSE [outcome |-> Return(Map(matmul(matmul(lhs, ic.value), mean),
                                     LAMBDA q : RatMul(q, Rat(1, len(self.ranks))))),
              mean |-> mean, inv_calls |-> 1]

\* An error that keeps the segment's rows in self.ranks instead of a local.
ErrorSelfSliced(self, start, end) ==
    IF self.ranks = None \/ end - start < self.min_size THEN self
    ELSE [self EXCEPT !.ranks =
            Array(<<end - start>> \o Tail(self.ranks.shape), LAMBDA t :
                self.ranks.at[<<t[1] + start>> \o Tail(t)])]

\* The instance after error(start, end): error assigns no attribute.
ErrorSelf(self, start, end) == self

error(self, start, end, build) ==
    IF TooShort(self, start, end)
    THEN [self |-> ErrorSelf(self, start, end),
          outcome |-> Raise("NotEnoughPoints"),
          mean |-> None, inv_calls |-> 0]
    ELSE LET c == Cost(self, start, end, build)
         IN  [self |-> ErrorSelf(self, start, end), outcome |-> c.outcome,
              mean |-> c.mean, inv_calls |-> c.inv_calls]

----------------------------------------------------------------------------
(* The instance and its callers *)

Self == [cov |-> cov, ranks |-> ranks, min_size |-> min_size]

Vals == 1..MaxVal

\* 1-D and 2-D signals of at most MaxCells values, and a 3-D array as the
\* malformed input.
Shapes ==
    { <<n>> : n \in 1..MaxN }
        \cup { sh \in { <<n, d>> : n \in 1..MaxN, d \in 1..MaxD } :
                   sh[1] * sh[2] <= MaxCells }
        \cup { <<1, 1, 1>> }

Signals ==
    UNION { { [shape |-> sh, at |-> f] : f \in [Indices(sh) -> Vals] } : sh \in Shapes }

\* The locals of fit for every signal (signals that fit cannot tell apart
\* give the same element).
Fits == { FitLocals(signal) : signal \in Signals }

Init ==
    /\ cov = init.cov
    /\ ranks = init.ranks
    /\ min_size = init.min_size
    /\ invNaN \in {"nan", "raise"}
    /\ fitted = None
    /\ last = [op |-> "init"]
    /\ memo = None

Fit(l) ==
    LET r == fit(Self, l)
        ok == r.outcome.kind = "return"
    IN  /\ cov' = r.self.cov
        /\ ranks' = r.self.ranks
        /\ min_size' = r.self.min_size
        /\ fitted' = IF ok THEN l.signal ELSE fitted
        /\ memo' = IF ok THEN None ELSE memo
        /\ last' = [op |-> "fit", signal |-> l.signal, was |-> IF ranks = None THEN << >> ELSE ranks.shape,
                    outcome |-> r.outcome,
                    locals |-> [ranks |-> l.ranks, norm_ranks |-> l.norm_ranks,
                                centered |-> l.centered],
                    inv_calls |-> r.inv_calls]
        /\ UNCHANGED invNaN

\* Callers pass indices into the fitted signal, in either order.
Bounds == IF ranks = None THEN 0..MaxN ELSE 0..len(ranks)

Error(start, end) ==
    LET r == error(Self, start, end, invNaN)
        call == [start |-> start, end |-> end, outcome |-> r.outcome,
                 between |-> FALSE]
        keep == IF memo = None THEN None
                ELSE [memo EXCEPT !.between =
                        @ \/ memo.start # start \/ memo.end # end]
    IN  /\ cov' = r.self.cov
        /\ ranks' = r.self.ranks
        /\ min_size' = r.self.min_size
        /\ last' = [op |-> "error", start |-> start, end |-> end,
                    outcome |-> r.outcome, mean |-> r.mean,
                    inv_calls |-> r.inv_calls]
        /\ memo' \in {keep, call}
        /\ UNCHANGED <<invNaN, fitted>>

Next ==
    \/ \E l \in Fits : Fit(l)
    \/ \E start \in Bounds, end \in Bounds : Error(start, end)

Spec == Init /\ [][Next]_vars

----------------------------------------------------------------------------
(* Properties *)

IsFitted == ranks # None
LastFit == last.op = "fit"
LastError == last.op = "error"
Returned == last.outcome.kind = "return"
NotEnoughPoints == Raise("NotEnoughPoints")

\* A segment the data model admits: 0 <= start < end <= n, long enough.
ValidSegment(start, end) ==
    /\ 0 <= start /\ start < end /\ end <= len(ranks)
    /\ end - start >= MinSize

\* The covariance model cannot be inverted.
NotInvertible(c) == np_inv(c, "raise").raised

AllZero(a) == \A t \in DOMAIN a.at : a.at[t] = 0
AllZeroFloat(a) == \A t \in DOMAIN a.at : IsFinite(a.at[t]) /\ a.at[t].num = 0
AllFinite(a) == \A t \in DOMAIN a.at : IsFinite(a.at[t])

\* C1: on a fitted instance, error(start, end) with end - start < 2 raises
\* NotEnoughPoints before anything else is computed (no mean, no matrix
\* inversion, also when the covariance cannot be inverted or does not fit
\* the mean vector) and leaves ranks, cov and min_size as they were.
C1_ShortSegmentRaisesFirst ==
    [][ (IsFitted /\ last'.op = "error" /\ last'.end - last'.start < MinSize)
            => /\ last'.outcome = NotEnoughPoints
               /\ last'.mean = None
               /\ last'.inv_calls = 0
               /\ ranks' = ranks /\ cov' = cov /\ min_size' = min_size ]_vars

\* A too-short call has been made on a fitted instance whose covariance is
\* not invertible and whose dimension differs from the mean vector's.
C1_Witness ==
    /\ IsFitted /\ LastError
    /\ last.end - last.start < MinSize
    /\ last.outcome = NotEnoughPoints
    /\ NotInvertible(cov)
    /\ ranks.shape[2] # len(ranks)

\* C2: every error call, whether it returns or raises, leaves ranks, cov and
\* min_size unchanged, and a call with the arguments of an earlier call
\* since the fit has the outcome of that earlier call, whatever calls were
\* made in between.
C2_ErrorIsPure ==
    [][ last'.op = "error"
            => /\ ranks' = ranks /\ cov' = cov /\ min_size' = min_size
               /\ (memo' # None /\ memo'.start = last'.start
                                /\ memo'.end = last'.end)
                    => memo'.outcome = last'.outcome ]_vars

\* A long-enough segment has been queried again after a call on another
\* segment.
C2_Witness ==
    /\ IsFitted /\ LastError /\ memo # None
    /\ memo.between
    /\ memo.start = last.start /\ memo.end = last.end
    /\ ValidSegment(last.start, last.end)
    /\ memo.outcome = last.outcome

\* C3: after fit on a 1-D signal of pairwise distinct values, error on every
\* segment of at least 2 samples returns a finite scalar, and on a shorter
\* one raises NotEnoughPoints.
C3_DistinctSignalCostIsFinite ==
    (IsFitted /\ fitted.ndim = 1 /\ fitted.distinct /\ LastError)
        => IF ValidSegment(last.start, last.end)
           THEN Returned /\ AllFinite(last.outcome.value)
           ELSE last.outcome = NotEnoughPoints

\* C4: the mean rank vector error computes has as many entries as the
\* covariance model built by fit has rows and columns.
C4_MeanLengthIsCovDimension ==
    (IsFitted /\ LastError /\ last.mean # None)
        => cov.shape = <<last.mean.shape[1], last.mean.shape[1]>>

\* C5: when the covariance model is not invertible, error on every segment
\* of at least 2 samples raises the matrix-inversion error (LinAlgError):
\* it returns nothing and raises nothing else.
C5_SingularCovRaisesLinAlgError ==
    (IsFitted /\ LastError /\ ValidSegment(last.start, last.end)
        /\ NotInvertible(cov))
        => last.outcome = Raise("LinAlgError")

\* C6: fit returns the instance for every 1-D or 2-D signal and inverts no
\* matrix, also when the covariance it stores is not invertible; such a
\* covariance makes a later error call on a long-enough segment raise.
C6_FitNeverFailsOnIllConditioned ==
    /\ (LastFit /\ last.signal.ndim \in {1, 2})
          => /\ last.outcome = Return("self")
             /\ last.inv_calls = 0
             /\ IsFitted /\ cov # None
    /\ (IsFitted /\ LastError /\ ValidSegment(last.start, last.end)
          /\ NotInvertible(cov))
          => last.outcome.kind = "raise" /\ last.inv_calls = 1

\* fit has just returned on a 1-D signal and stored a covariance that
\* cannot be inverted.
C6_Witness ==
    /\ LastFit /\ last.signal.ndim = 1 /\ Returned
    /\ IsFitted /\ NotInvertible(cov)

C8_FullSignalCostIsZero ==
    (IsFitted /\ len(ranks) >= MinSize /\ LastError
        /\ last.start = 0 /\ last.end = len(ranks))
        => Returned /\ AllZeroFloat(last.outcome.value)

\* C9: in fit, every position r satisfies 0 <= r < n, every normalized
\* position lies in [0, 1) and every centered value in [-1/2, 1/2).
C9_NormalizedRanksInUnitInterval ==
    (LastFit /\ Returned)
        => /\ \A t \in DOMAIN last.locals.ranks.at :
                 /\ 0 <= last.locals.ranks.at[t]
                 /\ last.locals.ranks.at[t] < last.locals.ranks.shape[1]
           /\ \A t \in DOMAIN last.locals.norm_ranks.at :
                 /\ RatLe(FromInt(0), last.locals.norm_ranks.at[t])
                 /\ RatLt(last.locals.norm_ranks.at[t], FromInt(1))
           /\ \A t \in DOMAIN last.locals.centered.at :
                 /\ RatLe(Rat(-1, 2), last.locals.centered.at[t])
                 /\ RatLt(last.locals.centered.at[t], Rat(1, 2))

\* C10: every entry of the stored rank matrix is 0, whatever the signal,
\* and so is every entry of a segment mean computed from it.
C10_StoredRanksAreAllZero ==
    /\ IsFitted => AllZero(ranks)
    /\ (IsFitted /\ LastError /\ last.mean # None) => AllZeroFloat(last.mean)

\* fit has just stored the ranks of a non-constant signal whose centered
\* values include a negative one and the boundary value 1/2.
C10_Witness ==
    /\ LastFit /\ Returned /\ IsFitted
    /\ ~last.signal.constant
    /\ \E t \in DOMAIN last.locals.centered.at :
           last.locals.centered.at[t].num < 0
    /\ \E t \in DOMAIN last.locals.centered.at :
           ~RatLt(last.locals.centered.at[t], Rat(1, 2))

====
